---- MODULE Spec2Model ----
(***************************************************************************)
(* A model of traced.py: the reactive dependency-graph engine.  Graphs,   *)
(* vertices and the evaluation stack are the state; the classes of        *)
(* traced_test.py (SingleInstanceDependency, Diamond, Loop, Rogue) supply *)
(* the cell expressions that are evaluated.                               *)
(*                                                                         *)
(* Conventions.  A timestamp that is None in the source is NoTime (0);    *)
(* the clock starts above it.  dependency_keys = None is the empty set    *)
(* (the source never holds an empty set object).  A vertex is identified  *)
(* by the graph whose table stores it and its key.                        *)
(***************************************************************************)
EXTENDS Integers, Sequences, FiniteSets, TLC

VARIABLES
    world,              \* the Traceable subclass the instance tr belongs to
    constructed,        \* TRUE once Traceable.__init__ has bound tr
    active_stack,       \* Graph.active_stack
    parent,             \* Graph.parent, per graph
    vertices,           \* Graph.vertices, per graph: key -> vertex fields
    evaluation_stack,   \* Graph.evaluation_stack, per graph
    now,                \* the last value time.monotonic() returned
    frames,             \* the cell expressions being evaluated (Python call stack)
    pending,            \* the exception that is propagating, or NoExc
    op,                 \* the user-level operation in progress or last completed
    broadcast,          \* the notify_all calls made by the last step
    clock_ties,         \* whether two draws of time.monotonic() may be equal
    budget,             \* the cell operations the user may still make in a run that nests graphs
    mutated,            \* history: the graphs, other than the current one, whose
                        \* table a step changed since a graph was last entered
    failed,             \* history: the vertices an evaluation of which ended
                        \* with an exception raised by an expression
    callbacks,          \* NotifierMixin.callbacks of every notifier, as the set of
                        \* pairs <<notifier, callback>> subscribed
    invoked,            \* the calls of callbacks the last step made: how often
                        \* each was called and what its re-read obtained
    wrappers            \* the TraceableClosure objects built so far, in the order
                        \* they were built: graph, vertex and func of each

vars == <<world, constructed, active_stack, parent, vertices, evaluation_stack,
          now, frames, pending, op, broadcast, clock_ties, budget, mutated, failed,
          callbacks, invoked, wrappers>>

----------------------------------------------------------------------------
(* Bounds *)

\* Graph.active_stack never grows beyond MaxDepth entries
MaxDepth == 2
\* a run that uses more than one graph, or nests a graph, makes at most MaxOps
\* cell operations (reads, assignments, deletions); a run that only ever
\* enters graph Main makes any number of them
MaxOps == 4
Main == "g1"

Graphs == {"g1", "g2"}
NoGraph == "None"

----------------------------------------------------------------------------
(* Values *)

None == [t |-> "None"]
IntV(n) == [t |-> "int", n |-> n]
StrV(s) == [t |-> "str", s |-> s]
ExcV(e) == [t |-> "exc", e |-> e]
\* the lambda a Closure expression returns, over the string it was built from
FunV(m) == [t |-> "function", m |-> m]
\* the generator object a call of a generator function returns
GenV == [t |-> "generator"]
\* the TraceableClosure or TraceableGenerator object number id
WrapV(id) == [t |-> "wrapper", id |-> id]

NoTime == 0
NoExc == "NoExc"
NoName == "None"

\* 'qwerty', 'xyz', 'asdf', 'abc', 'wxyz' as code points
qwerty == <<113, 119, 101, 114, 116, 121>>
xyz == <<120, 121, 122>>
asdf == <<97, 115, 100, 102>>
abc == <<97, 98, 99>>
wxyz == <<119, 120, 121, 122>>

\* str.upper on lower-case ASCII letters
upper(s) == [i \in 1..Len(s) |-> IF s[i] >= 97 /\ s[i] <= 122 THEN s[i] - 32 ELSE s[i]]
\* s[::-1]
reversed(s) == [i \in 1..Len(s) |-> s[Len(s) + 1 - i]]

----------------------------------------------------------------------------
(* The traceable classes of traced_test.py *)

Worlds == {"SingleInstanceDependency", "Diamond", "Loop", "Rogue"}

Cells(w) ==
    CASE w = "SingleInstanceDependency" -> {"Input", "Output"}
      [] w = "Diamond" -> {"X", "Y1", "Y2", "Z"}
      [] w = "Loop" -> {"First", "Second", "Third"}
      [] w = "Rogue" -> {"SomeValue", "AnotherValue", "Riser", "ReverseRiser"}
      [] w = "AssignmentPlus" -> {"AbcByDefault", "Closure", "Generator"}

\* Cell.name(): the __name__ of the expression, None for a default value
name(c) == IF c \in {"SomeValue", "AbcByDefault"} THEN NoName ELSE c

\* The next thing the expression of cell c does once the nested reads it
\* made so far returned vals.
Expr(c, vals) ==
    CASE c = "Input" -> [k |-> "return", v |-> IntV(1)]
      [] c = "Output" ->
            IF Len(vals) = 0 THEN [k |-> "read", c |-> "Input"]
            ELSE [k |-> "return", v |-> IntV(vals[1].n + 1)]
      [] c = "X" -> [k |-> "return", v |-> IntV(6)]
      [] c = "Y1" ->
            IF Len(vals) = 0 THEN [k |-> "read", c |-> "X"]
            ELSE [k |-> "return", v |-> IntV(vals[1].n * 2)]
      [] c = "Y2" ->
            IF Len(vals) = 0 THEN [k |-> "read", c |-> "X"]
            ELSE [k |-> "return", v |-> IntV(vals[1].n \div 2)]
      [] c = "Z" ->
            IF Len(vals) = 0 THEN [k |-> "read", c |-> "Y1"]
            ELSE IF Len(vals) = 1 THEN [k |-> "read", c |-> "Y2"]
            ELSE [k |-> "return", v |-> IntV(vals[1].n + vals[2].n)]
      [] c = "First" ->
            IF Len(vals) = 0 THEN [k |-> "read", c |-> "Third"]
            ELSE [k |-> "return", v |-> IntV(vals[1].n * 3)]
      [] c = "Second" ->
            IF Len(vals) = 0 THEN [k |-> "read", c |-> "First"]
            ELSE [k |-> "return", v |-> IntV(vals[1].n - 5)]
      [] c = "Third" ->
            IF Len(vals) = 0 THEN [k |-> "read", c |-> "Second"]
            ELSE [k |-> "return", v |-> IntV(vals[1].n + 10)]
      [] c = "SomeValue" -> [k |-> "return", v |-> StrV(qwerty)]
      [] c = "AnotherValue" ->
            IF Len(vals) = 0 THEN [k |-> "set", c |-> "SomeValue", v |-> StrV(asdf)]
            ELSE [k |-> "return", v |-> IntV(3)]
      [] c = "Riser" ->
            IF Len(vals) = 0 THEN [k |-> "read", c |-> "SomeValue"]
            ELSE IF vals[1] = StrV(qwerty) THEN [k |-> "raise", e |-> "RogueError"]
            ELSE IF Len(vals) = 1 THEN [k |-> "read", c |-> "SomeValue"]
            ELSE [k |-> "return", v |-> StrV(upper(vals[2].s))]
      [] c = "ReverseRiser" ->
            IF Len(vals) = 0 THEN [k |-> "read", c |-> "Riser"]
            ELSE [k |-> "return", v |-> StrV(reversed(vals[1].s))]
      [] c = "AbcByDefault" -> [k |-> "return", v |-> StrV(abc)]
      [] c = "Closure" ->
            IF Len(vals) = 0 THEN [k |-> "read", c |-> "AbcByDefault"]
            ELSE [k |-> "return", v |-> FunV(vals[1].s)]
      [] c = "Generator" -> [k |-> "return", v |-> GenV]

\* the values the tests assign to a cell
Assignable(c) ==
    CASE c = "Input" -> {IntV(-1)}
      [] c = "Output" -> {IntV(8)}
      [] c = "X" -> {IntV(20), IntV(-8)}
      [] c = "First" -> {IntV(17)}
      [] c = "Third" -> {IntV(10)}
      [] c = "SomeValue" -> {StrV(xyz)}
      [] c = "AbcByDefault" -> {StrV(wxyz)}
      [] OTHER -> {}

----------------------------------------------------------------------------
(* TraceableVertex *)

\* TraceableVertex.graph_key / key: (hash(traceable), hash(cell))
graph_key(c) == <<"tr", c>>

Vid(g, k) == [g |-> g, k |-> k]

\* class-level defaults of TraceableVertex: a vertex just constructed
TraceableVertex ==
    [dependency_keys |-> {}, evaluated |-> NoTime, last_known |-> None,
     overridden |-> NoTime, touched |-> NoTime, value |-> None]

Get(vs, vid) == vs[vid.g][vid.k]
Put(vs, vid, v) == [vs EXCEPT ![vid.g] = (vid.k :> v) @@ vs[vid.g]]

is_override(v) == v.overridden # NoTime

defined(v) == IF v.overridden # NoTime THEN v.overridden ELSE v.evaluated

undefine(v, t) ==
    [dependency_keys |-> {}, evaluated |-> NoTime, last_known |-> None,
     overridden |-> NoTime, touched |-> t, value |-> None]

\* remove_override that leaves the override value in place
remove_override_keeping_value(v, t) ==
    IF v.overridden # NoTime
    THEN [v EXCEPT !.touched = t, !.overridden = NoTime]
    ELSE v

remove_override(v, t) ==
    IF v.overridden # NoTime
    THEN [v EXCEPT !.touched = t, !.overridden = NoTime, !.value = v.last_known]
    ELSE v

add_dependency(v, vertex_key, t) ==
    IF vertex_key \in v.dependency_keys
    THEN v
    ELSE [v EXCEPT !.touched = t, !.dependency_keys = @ \cup {vertex_key}]

\* TraceableVertex.override without the notification: the fields after it
\* override that stamps overridden but leaves touched as it was
override_untouched(v, value, t) ==
    [v EXCEPT !.overridden = t, !.value = value]

override(v, value, t) ==
    [v EXCEPT !.touched = t, !.overridden = t, !.value = value]

\* __assign without its comparison: subscribers are notified of every assignment
assign_notify_always(c, new_value, old_value) ==
    {[traceable |-> "tr", cell |-> name(c), new |-> new_value, old |-> old_value]}

\* the notify_all calls __assign makes when vertex (traceable, cell c) goes
\* from old_value to new_value: payload (traceable, cell name, new, old)
assign_notify(c, new_value, old_value) ==
    IF new_value # old_value
    THEN {[traceable |-> "tr", cell |-> name(c), new |-> new_value, old |-> old_value]}
    ELSE {}

----------------------------------------------------------------------------
(* NotifierMixin *)

\* The traceables: tr, which the user reads and assigns, and tr2, a second
\* instance of the same class that the user only subscribes to.
Traceables == {"tr", "tr2"}

\* The callbacks of the user: one that only counts its calls, and one that
\* reads the cell it is told about again, getattr(instance, name)().
Callbacks == {"cb", "reread"}

\* A notifier is <<"traceable", i>>, <<"cell", c>> (the Cell object, shared
\* by the instances of the class) or <<"vertex", g, i, c>> (the vertex object
\* with key (i, c) in the table of graph g).
subscribers(n) == {cb \in Callbacks : <<n, cb>> \in callbacks}

NoCalls == [cb \in Callbacks |-> [n |-> 0, got |-> None]]

\* notify_all calling every callback once per notifier it is subscribed to
notify_all_chained(notifiers, got) ==
    [cb \in Callbacks |->
        [n |-> Cardinality({x \in notifiers : cb \in subscribers(x)}),
         got |-> IF cb = "reread" /\ cb \in UNION {subscribers(x) : x \in notifiers}
                 THEN got ELSE None]]

\* NotifierMixin.notify_all(notifiers, ...) when no callback raises: the
\* callbacks of the notifiers are gathered in one set and each is called;
\* got is what the re-read of callback reread obtains
notify_all(notifiers, got) ==
    [cb \in Callbacks |->
        IF cb \in UNION {subscribers(x) : x \in notifiers}
        THEN [n |-> 1, got |-> IF cb = "reread" THEN got ELSE None]
        ELSE [n |-> 0, got |-> None]]

\* the notifiers __assign passes: (self, self.traceable, self.cell)
assign_notifiers(vid) ==
    {<<"vertex", vid.g, vid.k[1], vid.k[2]>>, <<"traceable", vid.k[1]>>, <<"cell", vid.k[2]>>}

\* the calls __assign makes on vertex vid
assign_calls(vid, new_value, old_value, got) ==
    IF new_value # old_value THEN notify_all(assign_notifiers(vid), got) ELSE NoCalls

----------------------------------------------------------------------------
(* Graph *)

Range(s) == {s[i] : i \in DOMAIN s}

\* current() answering with the outermost active graph instead
current_outermost == active_stack[1]

\* Graph.current(): the innermost active graph
current == active_stack[Len(active_stack)]

\* the while loop of traceable_vertex: the first graph from ancestor upwards
\* that holds key; it does not terminate when the parent chain runs into a
\* cycle that does not hold the key
RECURSIVE search_up(_, _, _, _)
search_up(vs, ancestor, key, seen) ==
    IF ancestor = NoGraph THEN [st |-> "none", g |-> NoGraph]
    ELSE IF key \in DOMAIN vs[ancestor] THEN [st |-> "found", g |-> ancestor]
    ELSE IF ancestor \in seen THEN [st |-> "hang", g |-> NoGraph]
    ELSE search_up(vs, parent[ancestor], key, seen \cup {ancestor})

\* traceable_vertex resolving a key for writing the way it resolves it for
\* reading: an assignment reuses the vertex of the nearest ancestor
traceable_vertex_shared(vs, g, key, mode) ==
    IF key \in DOMAIN vs[g]
    THEN [st |-> "ok", vid |-> Vid(g, key), vs |-> vs]
    ELSE LET r == search_up(vs, parent[g], key, {}) IN
         IF r.st = "hang"
         THEN [st |-> "hang", vid |-> Vid(NoGraph, key), vs |-> vs]
         ELSE IF \/ r.st = "none" /\ mode \in {"g", "s"}
                 \/ r.st = "found" /\ is_override(vs[r.g][key]) /\ mode = "d"
         THEN [st |-> "ok", vid |-> Vid(g, key), vs |-> Put(vs, Vid(g, key), TraceableVertex)]
         ELSE IF r.st = "none"
         THEN [st |-> "none", vid |-> Vid(NoGraph, key), vs |-> vs]
         ELSE [st |-> "ok", vid |-> Vid(r.g, key), vs |-> vs]

\* traceable_vertex resolving a key for deletion the way it resolves it for a
\* trace: del reaches the vertex of the nearest ancestor, overridden or not
traceable_vertex_unshadowed(vs, g, key, mode) ==
    IF key \in DOMAIN vs[g]
    THEN [st |-> "ok", vid |-> Vid(g, key), vs |-> vs]
    ELSE IF mode = "s"
    THEN [st |-> "ok", vid |-> Vid(g, key), vs |-> Put(vs, Vid(g, key), TraceableVertex)]
    ELSE LET r == search_up(vs, parent[g], key, {}) IN
         IF r.st = "hang"
         THEN [st |-> "hang", vid |-> Vid(NoGraph, key), vs |-> vs]
         ELSE IF r.st = "none" /\ mode = "g"
         THEN [st |-> "ok", vid |-> Vid(g, key), vs |-> Put(vs, Vid(g, key), TraceableVertex)]
         ELSE IF r.st = "none"
         THEN [st |-> "none", vid |-> Vid(NoGraph, key), vs |-> vs]
         ELSE [st |-> "ok", vid |-> Vid(r.g, key), vs |-> vs]

\* Graph.traceable_vertex(instance, cell, mode, key) on graph g: st is "ok"
\* (vid is the vertex returned, vs the tables afterwards), "none" (None is
\* returned) or "hang" (the ancestor walk never ends)
traceable_vertex(vs, g, key, mode) ==
    IF key \in DOMAIN vs[g]
    THEN [st |-> "ok", vid |-> Vid(g, key), vs |-> vs]
    ELSE IF mode = "s"
    THEN [st |-> "ok", vid |-> Vid(g, key), vs |-> Put(vs, Vid(g, key), TraceableVertex)]
    ELSE LET r == search_up(vs, parent[g], key, {}) IN
         IF r.st = "hang"
         THEN [st |-> "hang", vid |-> Vid(NoGraph, key), vs |-> vs]
         ELSE IF \/ r.st = "none" /\ mode = "g"
                 \/ r.st = "found" /\ is_override(vs[r.g][key]) /\ mode = "d"
         THEN [st |-> "ok", vid |-> Vid(g, key), vs |-> Put(vs, Vid(g, key), TraceableVertex)]
         ELSE IF r.st = "none"
         THEN [st |-> "none", vid |-> Vid(NoGraph, key), vs |-> vs]
         ELSE [st |-> "ok", vid |-> Vid(r.g, key), vs |-> vs]

\* Outcomes of the dirty test.  is_dirty, vertex_stale and is_newer call each
\* other; each yields the SET of outcomes the call can have: the iteration
\* order over dependency_keys is not fixed, a dependency cycle among
\* evaluated vertices recurses until RecursionError, and a trace lookup can
\* hang.  path holds the vertices whose is_dirty call is in progress.
Failures == {"RecursionError", "TypeError", "hang"}

RECURSIVE is_dirty(_, _, _, _)
RECURSIVE vertex_stale(_, _, _, _)
RECURSIVE is_newer(_, _, _, _, _)

\* self.is_newer(vertex): self is wid, the dependency; vertex is vid
is_newer(vs, cg, wid, vid, path) ==
    LET d == is_dirty(vs, cg, wid, path)
        v == Get(vs, vid)
        w == Get(vs, wid)
    IN  (IF "dirty" \in d THEN {"True"} ELSE {})
        \cup (IF "clean" \notin d THEN {}
              ELSE IF defined(v) = NoTime THEN {"TypeError"}
              ELSE IF defined(v) < w.touched THEN {"True"} ELSE {"False"})
        \cup (d \cap Failures)

\* Graph.vertex_stale(vertex) on the current graph cg
vertex_stale(vs, cg, vid, path) ==
    LET keys == Get(vs, vid).dependency_keys
        out(key) ==
            LET dependency == traceable_vertex(vs, cg, key, "t") IN
            IF dependency.st = "hang" THEN {"hang"}
            ELSE IF dependency.st = "none" THEN {"True"}
            ELSE is_newer(vs, cg, dependency.vid, vid, path)
        all == UNION {out(key) : key \in keys}
    IN  (IF "True" \in all THEN {"dirty"} ELSE {})
        \cup (all \cap Failures)
        \cup (IF \A key \in keys : "False" \in out(key) THEN {"clean"} ELSE {})

\* is_dirty without its first test: an override no longer makes a vertex clean
is_dirty_ignoring_override(vs, cg, vid, path) ==
    LET v == Get(vs, vid) IN
    IF v.evaluated = NoTime THEN {"dirty"}
    ELSE IF vid \in path THEN {"RecursionError"}
    ELSE vertex_stale(vs, cg, vid, path \cup {vid})

\* TraceableVertex.is_dirty()
is_dirty(vs, cg, vid, path) ==
    LET v == Get(vs, vid) IN
    IF v.overridden # NoTime THEN {"clean"}
    ELSE IF v.evaluated = NoTime THEN {"dirty"}
    ELSE IF vid \in path THEN {"RecursionError"}
    ELSE vertex_stale(vs, cg, vid, path \cup {vid})

\* Graph.push_vertex(vertex) on an evaluation stack es; t is what
\* time.monotonic() returns if it is called
push_vertex(vs, es, vid, t) ==
    IF es # <<>> /\ vid \in Range(es)
    THEN [exc |-> "LoopException", vs |-> Put(vs, vid, undefine(Get(vs, vid), t)),
          es |-> es, ticked |-> TRUE]
    ELSE IF es # <<>> /\ vid.k \notin Get(vs, es[Len(es)]).dependency_keys
    THEN [exc |-> NoExc,
          vs |-> Put(vs, es[Len(es)], add_dependency(Get(vs, es[Len(es)]), vid.k, t)),
          es |-> Append(es, vid), ticked |-> TRUE]
    ELSE [exc |-> NoExc, vs |-> vs, es |-> Append(es, vid), ticked |-> FALSE]

\* Graph.pop_vertex(vertex): the assertions come before and after the pop
pop_vertex(es, vid) ==
    IF es = <<>> THEN [exc |-> "AssertionError", es |-> es]
    ELSE [exc |-> IF es[Len(es)] = vid THEN NoExc ELSE "AssertionError",
          es |-> SubSeq(es, 1, Len(es) - 1)]

\* A callback reads the vertex it is told about while it is being notified:
\* __call__ on vertex vid with evaluation stack es.  The vertex has just
\* been assigned; when the push succeeds it is an override on an empty
\* stack (clean), so its value is returned and it is popped again.
reread(vs, es, vid, t) ==
    LET p == push_vertex(vs, es, vid, t) IN
    IF p.exc # NoExc
    THEN [exc |-> p.exc, vs |-> p.vs, got |-> ExcV(p.exc)]
    ELSE [exc |-> NoExc, vs |-> p.vs, got |-> Get(p.vs, vid).value]

----------------------------------------------------------------------------
(* TraceableWrapper: what runs between the push and the pop of wrap *)

\* the key the user looks up: 'b'
Key == 98

\* {ch: index for index, ch in enumerate(m)}.get(key, None)
get(m, key) ==
    IF \E i \in 1..Len(m) : m[i] = key
    THEN IntV((CHOOSE i \in 1..Len(m) : m[i] = key /\ \A j \in i + 1..Len(m) : m[j] # key) - 1)
    ELSE None

\* one advance of the generator of cell Generator: up to the next yield
Advance == <<[k |-> "read", c |-> "AbcByDefault"], [k |-> "read", c |-> "AbcByDefault"]>>

\* What a function does before it looks the key up is an input of the call:
\* nothing (the lambda of cell Closure), a read of a cell that the
\* expression did not read, or a call of wrapper id itself with nothing
\* before the lookup.
Bodies(id) ==
    {<<>>, <<[k |-> "read", c |-> "Generator"]>>,
     <<[k |-> "invoke", w |-> id, body |-> <<>>]>>}

\* The next thing the wrapped function or generator of wrapper w does once
\* the reads and calls of body that it made so far returned vals.
func(w, body, vals) ==
    IF Len(vals) < Len(body) THEN body[Len(vals) + 1]
    ELSE IF w.func.t = "generator"
    THEN [k |-> "return", v |-> StrV(<<vals[1].s[(w.index % Len(vals[2].s)) + 1]>>)]
    ELSE [k |-> "return", v |-> get(w.func.m, Key)]

----------------------------------------------------------------------------
(* The state machine *)

NoOp == [name |-> "none", cell |-> "", val |-> None, status |-> "done", result |-> None,
         cleared |-> FALSE, shadowed |-> ""]

\* a user-level operation as it starts.  cleared records, for a del, that
\* it removed an override and, for a read, that it is the statement right
\* after such a del of the same cell.  shadowed names, for a del, the cell
\* for which it put a new vertex on the current graph in front of an
\* ancestor's override and, for a read, the cell of such a del when the read
\* is the statement right after it.
Op(n, c, v) == [name |-> n, cell |-> c, val |-> v, status |-> "running", result |-> None,
                cleared |-> FALSE, shadowed |-> ""]

\* the operation ends with result x (a value or an exception)
Done(o, x) == [o EXCEPT !.status = "done", !.result = x]

\* the increments one draw of time.monotonic() can add to the previous one
Steps == IF clock_ties THEN {0, 1} ELSE {1}

\* the program starts: no graph, no traceable; the user's class is one of ws,
\* a run that nests graphs gets b cell operations, and ties tells whether
\* two draws of the clock can be equal
Start(ws, b, ties) ==
    /\ world \in ws
    /\ constructed = FALSE
    /\ active_stack = <<>>
    /\ parent = [g \in Graphs |-> NoGraph]
    /\ vertices = [g \in Graphs |-> <<>>]
    /\ evaluation_stack = [g \in Graphs |-> <<>>]
    /\ now = 1
    /\ frames = <<>>
    /\ pending = NoExc
    /\ op = NoOp
    /\ broadcast = {}
    /\ clock_ties = ties
    /\ budget = b
    /\ mutated = {}
    /\ failed = {}
    /\ callbacks = {}
    /\ invoked = NoCalls
    /\ wrappers = <<>>

\* the program starts with a clock that never returns the same value twice
Boot(ws, b) == Start(ws, b, FALSE)

Init == Boot(Worlds, MaxOps)

\* Clock readings are only ever compared with each other (is_newer) and with
\* None, and every new reading is at least the last one, so a state keeps
\* them by rank: the readings held by some vertex, and the last one drawn,
\* are renumbered 1, 2, ... in their order.
Readings(vs, t) ==
    {t} \cup UNION {UNION {{vs[g][k].evaluated, vs[g][k].overridden, vs[g][k].touched} :
                            k \in DOMAIN vs[g]} : g \in Graphs}

Rank(x, readings) ==
    IF x = NoTime THEN NoTime ELSE Cardinality({y \in readings : y # NoTime /\ y <= x})

Ranked(vs, t) ==
    LET readings == Readings(vs, t) IN
    [g \in Graphs |->
        [k \in DOMAIN vs[g] |->
            [vs[g][k] EXCEPT !.evaluated = Rank(@, readings),
                             !.overridden = Rank(@, readings),
                             !.touched = Rank(@, readings)]]]

\* the tables become vs and the last clock reading t
Commit(vs, t) ==
    /\ vertices' = Ranked(vs, t)
    /\ now' = Rank(t, Readings(vs, t))
    /\ mutated' = mutated \cup {g \in Graphs \ {current} : vs[g] # vertices[g]}

\* no call into the library is in progress: user code runs
Idle == frames = <<>> /\ pending = NoExc

\* only graph Main has been used so far, and never nested
Single(stack, par, vs) ==
    /\ stack \in {<<>>, <<Main>>}
    /\ \A g \in Graphs : par[g] = NoGraph
    /\ \A g \in Graphs \ {Main} : vs[g] = <<>>

\* user code goes on to another cell operation
Ready == Idle /\ (budget > 0 \/ Single(active_stack, parent, vertices))

\* the cell operation is counted
Charge == budget' = IF budget > 0 THEN budget - 1 ELSE 0

\* the step notifies nobody
Quiet == broadcast' = {} /\ invoked' = NoCalls

\* an operation that fails at once with exception e and changes nothing
Fails(o, e) ==
    /\ op' = Done(o, ExcV(e))
    /\ Quiet
    /\ UNCHANGED <<world, constructed, active_stack, parent, vertices,
                   evaluation_stack, now, frames, pending, clock_ties, mutated>>

\* the ancestor walk of traceable_vertex never returns: the process hangs
Hangs(o) ==
    /\ pending' = "hang"
    /\ op' = o
    /\ Quiet
    /\ UNCHANGED <<world, constructed, active_stack, parent, vertices,
                   evaluation_stack, now, frames, clock_ties, mutated>>

\* the with blocks of the user: Main outermost, any other graph inside it
Nested(g) == IF g = Main THEN active_stack = <<>> ELSE active_stack # <<>>

\* Graph.__enter__ without the assertion on the parent
enter_reparenting(g) ==
    /\ parent' = IF active_stack # <<>> THEN [parent EXCEPT ![g] = current] ELSE parent
    /\ active_stack' = Append(active_stack, g)
    /\ op' = Done(Op("enter", g, None), None)
    /\ Quiet
    /\ mutated' = {}
    /\ UNCHANGED <<world, constructed, vertices, evaluation_stack, now,
                   frames, pending, clock_ties>>

\* Graph.__enter__ of graph g
enter(g) ==
    IF active_stack # <<>> /\ ~(parent[g] = NoGraph \/ parent[g] = current)
    THEN Fails(Op("enter", g, None), "AssertionError")
    ELSE /\ parent' = IF active_stack # <<>> THEN [parent EXCEPT ![g] = current] ELSE parent
         /\ active_stack' = Append(active_stack, g)
         /\ op' = Done(Op("enter", g, None), None)
         /\ Quiet
         /\ mutated' = {}
         /\ UNCHANGED <<world, constructed, vertices, evaluation_stack, now,
                        frames, pending, clock_ties>>

\* with g: Main is the outermost block, any other graph is inside it
Enter(g) ==
    /\ UNCHANGED <<budget, failed, callbacks, wrappers>>
    /\ Idle
    /\ Len(active_stack) < MaxDepth
    /\ budget > 0 \/ g = Main
    /\ Nested(g)
    /\ enter(g)

\* Graph.__exit__ of the with block entered last
Exit ==
    /\ UNCHANGED <<budget, failed, callbacks, wrappers>>
    /\ Idle
    /\ active_stack # <<>>
    /\ active_stack' = SubSeq(active_stack, 1, Len(active_stack) - 1)
    /\ op' = Done(Op("exit", current, None), None)
    /\ Quiet
    /\ UNCHANGED <<world, constructed, parent, vertices, evaluation_stack, now,
                   frames, pending, clock_ties, mutated>>

\* The value x of a vertex call goes to its caller: the expression on top of
\* fr, or the user when no expression is being evaluated.
Returns(x, fr, o) ==
    IF fr = <<>>
    THEN /\ frames' = <<>>
         /\ op' = Done(o, x)
    ELSE /\ frames' = [fr EXCEPT ![Len(fr)].vals = Append(@, x)]
         /\ op' = o

\* The exception e of a call goes to its caller, as Returns
Raises(e, fr, o) ==
    IF fr = <<>>
    THEN /\ frames' = <<>>
         /\ pending' = NoExc
         /\ op' = Done(o, ExcV(e))
    ELSE /\ frames' = fr
         /\ pending' = e
         /\ op' = o

\* tr.c(): Cell.__get__ (Graph.read) and then TraceableVertex.__call__ up to
\* the evaluation of the expression, for the user or for the expression on
\* top of frames; o is the user-level operation this is part of.
Call(c, o) ==
    LET cg == current
        r == traceable_vertex(vertices, cg, graph_key(c), "g")
    IN
    IF r.st = "hang" THEN Hangs(o)
    ELSE \E d1, d2 \in Steps :
         LET p == push_vertex(r.vs, evaluation_stack[cg], r.vid, now + d1)
             t1 == IF p.ticked THEN now + d1 ELSE now
             t2 == t1 + d2
             fr == Append(frames, [cg |-> cg, vid |-> r.vid, vals |-> <<>>,
                                   w |-> 0, body |-> <<>>])
         IN
         /\ UNCHANGED <<world, constructed, active_stack, parent, clock_ties>>
         /\ Quiet
         /\ IF p.exc # NoExc
            THEN \* the loop is found before the vertex is pushed
                 /\ Commit(p.vs, t1)
                 /\ pending' = p.exc
                 /\ op' = o
                 /\ UNCHANGED <<evaluation_stack, frames>>
            ELSE \E dirty \in is_dirty(p.vs, cg, r.vid, {}) :
                 CASE dirty = "clean" ->
                        \* pushed, value returned, popped
                        /\ Commit(p.vs, t1)
                        /\ Returns(Get(p.vs, r.vid).value, frames, o)
                        /\ UNCHANGED <<evaluation_stack, pending>>
                   [] dirty = "dirty" ->
                        /\ Commit(Put(p.vs, r.vid,
                              [Get(p.vs, r.vid) EXCEPT !.touched = t2, !.dependency_keys = {}]), t2)
                        /\ evaluation_stack' = [evaluation_stack EXCEPT ![cg] = p.es]
                        /\ frames' = fr
                        /\ op' = o
                        /\ UNCHANGED pending
                   [] dirty = "hang" ->
                        /\ Commit(p.vs, t1)
                        /\ evaluation_stack' = [evaluation_stack EXCEPT ![cg] = p.es]
                        /\ frames' = fr
                        /\ pending' = "hang"
                        /\ op' = o
                   [] OTHER ->
                        \* is_dirty raised inside the try block
                        /\ Commit(p.vs, t1)
                        /\ evaluation_stack' = [evaluation_stack EXCEPT ![cg] = p.es]
                        /\ frames' = fr
                        /\ pending' = dirty
                        /\ op' = o

\* Traceable.__init__(**kw) with kw empty or one cell
Construct(kw) ==
    /\ UNCHANGED <<budget, failed, callbacks, wrappers>>
    /\ Ready
    /\ ~constructed
    /\ IF active_stack = <<>>
       THEN Fails(Op("new", "", None), "ContextException")
       ELSE IF kw = <<>>
       THEN /\ constructed' = TRUE
            /\ op' = Done(Op("new", "", None), None)
            /\ Quiet
            /\ UNCHANGED <<world, active_stack, parent, vertices, evaluation_stack,
                           now, frames, pending, clock_ties, mutated>>
       ELSE \E d \in Steps :
            LET r == traceable_vertex(vertices, current, graph_key(kw[1]), "s")
                v == Get(r.vs, r.vid)
            IN  /\ constructed' = TRUE
                /\ Commit(Put(r.vs, r.vid, override(v, kw[2], now + d)), now + d)
                /\ broadcast' = assign_notify(kw[1], kw[2], v.value)
                /\ invoked' = assign_calls(r.vid, kw[2], v.value, kw[2])
                /\ op' = Done(Op("new", kw[1], kw[2]), None)
                /\ UNCHANGED <<world, active_stack, parent, evaluation_stack,
                               frames, pending, clock_ties>>

\* the user evaluates tr.c()
Read(c) ==
    /\ Charge
    /\ UNCHANGED <<failed, callbacks, wrappers>>
    /\ Ready
    /\ constructed
    /\ IF active_stack = <<>>
       THEN Fails(Op("get", c, None), "ContextException")
       ELSE Call(c, [Op("get", c, None) EXCEPT
                        !.cleared = op.name = "del" /\ op.cell = c /\ op.cleared,
                        !.shadowed = IF op.name = "del" THEN op.shadowed ELSE ""])

\* Graph.override without the test of the evaluation stack
graph_override_unchecked(c, value, t) ==
    IF active_stack = <<>> THEN [exc |-> "ContextException"]
    ELSE LET r == traceable_vertex(vertices, current, graph_key(c), "s")
             v == Get(r.vs, r.vid)
             vs == Put(r.vs, r.vid, override(v, value, t))
         IN  [exc |-> NoExc, vs |-> vs,
              notify |-> assign_notify(c, value, v.value),
              calls |-> assign_calls(r.vid, value, v.value,
                                     reread(vs, evaluation_stack[current], r.vid, t).got)]

\* Cell.__set__ / Graph.override made by caller o.  The result is what the
\* statement does: "ok" with the tables, clock and broadcast afterwards, or
\* the exception it raises.
graph_override(c, value, t) ==
    IF active_stack = <<>> THEN [exc |-> "ContextException"]
    ELSE IF evaluation_stack[current] # <<>> THEN [exc |-> "DependencyException"]
    ELSE LET r == traceable_vertex(vertices, current, graph_key(c), "s")
             v == Get(r.vs, r.vid)
             vs == Put(r.vs, r.vid, override(v, value, t))
         IN  [exc |-> NoExc, vs |-> vs,
              notify |-> assign_notify(c, value, v.value),
              calls |-> assign_calls(r.vid, value, v.value,
                                     reread(vs, evaluation_stack[current], r.vid, t).got)]

\* the user assigns tr.c = value
Write(c, value) ==
    /\ Charge
    /\ UNCHANGED <<failed, callbacks, wrappers>>
    /\ Ready
    /\ constructed
    /\ \E d \in Steps :
       LET r == graph_override(c, value, now + d) IN
       IF r.exc # NoExc
       THEN Fails(Op("set", c, value), r.exc)
       ELSE /\ Commit(r.vs, now + d)
            /\ broadcast' = r.notify
            /\ invoked' = r.calls
            /\ op' = Done(Op("set", c, value), None)
            /\ UNCHANGED <<world, constructed, active_stack, parent,
                           evaluation_stack, frames, pending, clock_ties>>

\* the user clears the override: del tr.c (Cell.__delete__, Graph.remove_override)
Delete(c) ==
    /\ Charge
    /\ UNCHANGED <<failed, callbacks, wrappers>>
    /\ Ready
    /\ constructed
    /\ IF active_stack = <<>>
       THEN Fails(Op("del", c, None), "ContextException")
       ELSE LET r == traceable_vertex(vertices, current, graph_key(c), "d") IN
            IF r.st = "hang" THEN Hangs(Op("del", c, None))
            ELSE \E d \in Steps :
                 LET ticked == r.st = "ok" /\ is_override(Get(r.vs, r.vid)) IN
                 /\ Commit(IF r.st = "ok"
                           THEN Put(r.vs, r.vid, remove_override(Get(r.vs, r.vid), now + d))
                           ELSE r.vs,
                           IF ticked THEN now + d ELSE now)
                 /\ Quiet
                 /\ op' = Done([Op("del", c, None) EXCEPT
                                    !.cleared = ticked,
                                    !.shadowed =
                                        IF graph_key(c) \in DOMAIN r.vs[current]
                                                              \ DOMAIN vertices[current]
                                        THEN c ELSE ""], None)
                 /\ UNCHANGED <<world, constructed, active_stack, parent,
                                evaluation_stack, frames, pending, clock_ties>>

\* the expression being evaluated: the one on top of frames
Top == frames[Len(frames)]
Running == frames # <<>> /\ pending = NoExc
Instr ==
    IF Top.w = 0 THEN Expr(Top.vid.k[2], Top.vals)
    ELSE func(wrappers[Top.w], Top.body, Top.vals)

\* the expression reads another cell: self.c()
ExprRead ==
    /\ UNCHANGED <<budget, failed, callbacks, wrappers>>
    /\ Running
    /\ Instr.k = "read"
    /\ Call(Instr.c, op)

\* the expression assigns another cell: self.c = v
ExprWrite ==
    /\ UNCHANGED <<budget, failed, callbacks, wrappers>>
    /\ Running
    /\ Instr.k = "set"
    /\ \E d \in Steps :
       LET r == graph_override(Instr.c, Instr.v, now + d) IN
       IF r.exc # NoExc
       THEN /\ pending' = r.exc
            /\ Quiet
            /\ UNCHANGED <<world, constructed, active_stack, parent, vertices,
                           evaluation_stack, now, frames, op, clock_ties, mutated>>
       ELSE /\ Commit(r.vs, now + d)
            /\ broadcast' = r.notify
            /\ invoked' = r.calls
            /\ frames' = [frames EXCEPT ![Len(frames)].vals = Append(@, None)]
            /\ UNCHANGED <<world, constructed, active_stack, parent,
                           evaluation_stack, pending, op, clock_ties>>

\* the expression raises
ExprRaise ==
    /\ UNCHANGED <<budget, failed, callbacks, wrappers>>
    /\ Running
    /\ Instr.k = "raise"
    /\ pending' = Instr.e
    /\ Quiet
    /\ UNCHANGED <<world, constructed, active_stack, parent, vertices,
                   evaluation_stack, now, frames, op, clock_ties, mutated>>

\* the fields of a vertex after its expression returned x: lines 324-336
evaluated_to(v, x) ==
    [v EXCEPT !.last_known = x, !.evaluated = v.touched, !.value = x]

\* lines 326-332: a generator the expression returned is wrapped in a
\* TraceableGenerator, after the previous value was closed; a function is
\* wrapped in a TraceableClosure; any other value is kept as it is
wrapped(v, x, cg, vid) ==
    LET new == [graph |-> cg, vertex |-> vid, func |-> x, valid |-> TRUE, index |-> 0] IN
    IF x.t = "generator"
    THEN IF v.value = None
         THEN [exc |-> NoExc, x |-> WrapV(Len(wrappers) + 1), ws |-> Append(wrappers, new)]
         ELSE IF v.value.t = "wrapper" /\ wrappers[v.value.id].func.t = "generator"
         THEN [exc |-> NoExc, x |-> WrapV(Len(wrappers) + 1),
               ws |-> Append([wrappers EXCEPT ![v.value.id].valid = FALSE], new)]
         ELSE [exc |-> "AttributeError", x |-> None, ws |-> wrappers]
    ELSE IF x.t = "function"
    THEN [exc |-> NoExc, x |-> WrapV(Len(wrappers) + 1), ws |-> Append(wrappers, new)]
    ELSE [exc |-> NoExc, x |-> x, ws |-> wrappers]

\* the expression returns: the rest of TraceableVertex.__call__
ExprReturn ==
    /\ UNCHANGED <<budget, failed, callbacks>>
    /\ Running
    /\ Top.w = 0
    /\ Instr.k = "return"
    /\ LET v == Get(vertices, Top.vid)
           wr == wrapped([v EXCEPT !.last_known = Instr.v], Instr.v, Top.cg, Top.vid)
           vs == Put(vertices, Top.vid, evaluated_to(v, wr.x))
           notify == assign_notify(Top.vid.k[2], wr.x, v.value)
           called == UNION {subscribers(x) : x \in assign_notifiers(Top.vid)}
           popped == pop_vertex(evaluation_stack[Top.cg], Top.vid)
       IN
       /\ UNCHANGED <<world, constructed, active_stack, parent, clock_ties>>
       /\ wrappers' = wr.ws
       /\ IF wr.exc # NoExc
          THEN \* closing the previous value fails: last_known is the raw
               \* generator, nothing else is assigned
               /\ Commit(Put(vertices, Top.vid, [v EXCEPT !.last_known = Instr.v]), now)
               /\ pending' = wr.exc
               /\ Quiet
               /\ UNCHANGED <<evaluation_stack, frames, op>>
          ELSE IF notify # {} /\ "reread" \in called
          THEN \* the vertex is still on the evaluation stack when the
               \* callbacks run, in an order that is not fixed: the re-read
               \* raises out of notify_all, __assign and __call__
               \E d \in Steps : \E before \in SUBSET (called \ {"reread"}) :
               LET rr == reread(vs, evaluation_stack[current], Top.vid, now + d) IN
               /\ broadcast' = notify
               /\ Commit(rr.vs, now + d)
               /\ invoked' = [cb \in Callbacks |->
                                 IF cb = "reread" THEN [n |-> 1, got |-> rr.got]
                                 ELSE IF cb \in before THEN [n |-> 1, got |-> None]
                                 ELSE [n |-> 0, got |-> None]]
               /\ pending' = rr.exc
               /\ UNCHANGED <<evaluation_stack, frames, op>>
          ELSE /\ broadcast' = notify
               /\ Commit(vs, now)
               /\ invoked' = assign_calls(Top.vid, wr.x, v.value, wr.x)
               /\ evaluation_stack' = [evaluation_stack EXCEPT ![Top.cg] = popped.es]
               /\ IF popped.exc # NoExc
                  THEN Raises(popped.exc, SubSeq(frames, 1, Len(frames) - 1), op)
                  ELSE /\ Returns(wr.x, SubSeq(frames, 1, Len(frames) - 1), op)
                       /\ UNCHANGED pending

\* the exceptions an expression of the test classes raises itself
UserExceptions == {"RogueError", "DependencyException"}

\* an exception leaves TraceableVertex.__call__, or TraceableWrapper.wrap,
\* through its finally clause; out of the outermost call it reaches the user
Unwind ==
    /\ UNCHANGED <<budget, callbacks, wrappers>>
    /\ frames # <<>>
    /\ pending \notin {NoExc, "hang"}
    /\ failed' = IF Top.w = 0 /\ pending \in UserExceptions
                 THEN failed \cup {Top.vid} ELSE failed
    /\ LET popped == IF Top.w = 0 \/ wrappers[Top.w].valid
                     THEN pop_vertex(evaluation_stack[Top.cg], Top.vid)
                     ELSE [exc |-> NoExc, es |-> evaluation_stack[Top.cg]]
       IN  /\ evaluation_stack' = [evaluation_stack EXCEPT ![Top.cg] = popped.es]
           /\ Raises(IF popped.exc # NoExc THEN popped.exc ELSE pending,
                     SubSeq(frames, 1, Len(frames) - 1), op)
    /\ Quiet
    /\ UNCHANGED <<world, constructed, active_stack, parent, vertices, now,
                   clock_ties, mutated>>

\* TraceableWrapper.wrap of wrapper id up to the call of f, for the user or
\* for the function on top of frames: the push goes to the graph the wrapper
\* was built with, and a push that raises is followed by the pop of the
\* finally clause
wrap(id, body, o) ==
    LET w == wrappers[id]
        es == evaluation_stack[w.graph]
    IN
    \E d \in Steps :
    LET p == push_vertex(vertices, es, w.vertex, now + d)
        popped == pop_vertex(es, w.vertex)
    IN
    /\ Commit(p.vs, IF p.ticked THEN now + d ELSE now)
    /\ Quiet
    /\ UNCHANGED <<world, constructed, active_stack, parent, clock_ties>>
    /\ IF p.exc # NoExc
       THEN /\ evaluation_stack' = [evaluation_stack EXCEPT ![w.graph] = popped.es]
            /\ Raises(IF popped.exc # NoExc THEN popped.exc ELSE p.exc, frames, o)
       ELSE /\ evaluation_stack' = [evaluation_stack EXCEPT ![w.graph] = p.es]
            /\ frames' = Append(frames, [cg |-> w.graph, vid |-> w.vertex, vals |-> <<>>,
                                         w |-> id, body |-> body])
            /\ op' = o
            /\ UNCHANGED pending

\* the user calls the function, or advances the generator, that a read
\* returned: TraceableClosure.__call__, TraceableGenerator.__next__
Invoke(id, body) ==
    /\ Charge
    /\ UNCHANGED <<failed, callbacks, wrappers>>
    /\ Idle
    /\ budget > 0
    /\ active_stack # <<>>
    /\ id \in 1..Len(wrappers)
    /\ body \in IF wrappers[id].func.t = "generator" THEN {Advance} ELSE Bodies(id)
    /\ LET o == Op("invoke", wrappers[id].vertex.k[2], WrapV(id)) IN
       IF wrappers[id].valid
       THEN wrap(id, body, o)
       ELSE \* a closed generator: nothing is pushed, __next__ raises
            Fails(o, "StopIteration")

\* the function calls a wrapper
ExprInvoke ==
    /\ UNCHANGED <<budget, failed, callbacks, wrappers>>
    /\ Running
    /\ Instr.k = "invoke"
    /\ wrap(Instr.w, Instr.body, op)

\* the function returns, or the generator yields: the rest of wrap
WrapReturn ==
    /\ UNCHANGED <<budget, failed, callbacks>>
    /\ Running
    /\ Top.w # 0
    /\ Instr.k = "return"
    /\ LET popped == IF wrappers[Top.w].valid
                     THEN pop_vertex(evaluation_stack[Top.cg], Top.vid)
                     ELSE [exc |-> NoExc, es |-> evaluation_stack[Top.cg]]
       IN  /\ wrappers' = IF wrappers[Top.w].func.t = "generator"
                          THEN [wrappers EXCEPT ![Top.w].index = @ + 1]
                          ELSE wrappers
           /\ evaluation_stack' = [evaluation_stack EXCEPT ![Top.cg] = popped.es]
           /\ IF popped.exc # NoExc
              THEN Raises(popped.exc, SubSeq(frames, 1, Len(frames) - 1), op)
              ELSE /\ Returns(Instr.v, SubSeq(frames, 1, Len(frames) - 1), op)
                   /\ UNCHANGED pending
    /\ Quiet
    /\ UNCHANGED <<world, constructed, active_stack, parent, vertices, now,
                   clock_ties, mutated>>

\* the keyword arguments of the constructor: none or one assignable cell
Kwargs == {<<>>} \cup {<<c, x>> : c \in Cells(world), x \in UNION {Assignable(b) : b \in Cells(world)}}

Next ==
    \/ \E g \in Graphs : Enter(g)
    \/ Exit
    \/ \E kw \in {k \in Kwargs : k = <<>> \/ k[2] \in Assignable(k[1])} : Construct(kw)
    \/ \E c \in Cells(world) : Read(c)
    \/ \E c \in Cells(world) : \E x \in Assignable(c) : Write(c, x)
    \/ \E c \in Cells(world) : Assignable(c) # {} /\ Delete(c)
    \/ ExprRead
    \/ ExprWrite
    \/ ExprRaise
    \/ ExprReturn
    \/ Unwind

Spec == Init /\ [][Next]_vars

\* Longer runs over two graphs for the two-cell class alone: the traceable is
\* made without keyword arguments and the second graph is entered once.
MaxOpsChain == 6

InitChain == Boot({"SingleInstanceDependency"}, MaxOpsChain)

NextChain ==
    \/ \E g \in Graphs : parent[g] = NoGraph /\ Enter(g)
    \/ Exit
    \/ Construct(<<>>)
    \/ \E c \in Cells(world) : Read(c)
    \/ \E c \in Cells(world) : \E x \in Assignable(c) : Write(c, x)
    \/ \E c \in Cells(world) : Delete(c)
    \/ ExprRead
    \/ ExprReturn

SpecChain == InitChain /\ [][NextChain]_vars

----------------------------------------------------------------------------
(* Graphs entered and left in any order *)

\* a run that enters graphs freely makes at most MaxOpsEntry cell operations
\* once it uses a graph other than Main alone
MaxOpsEntry == 2

\* with g, or g.__enter__(), whatever graphs are active
EnterAny(g) ==
    /\ UNCHANGED <<budget, failed, callbacks, wrappers>>
    /\ Idle
    /\ Len(active_stack) < MaxDepth
    /\ enter(g)

\* g.__exit__(): at the end of the with block of g, or called out of turn
ExitOf(g) ==
    /\ UNCHANGED <<budget, failed, callbacks, wrappers>>
    /\ Idle
    /\ IF active_stack = <<>>
       THEN Fails(Op("exit", g, None), "AssertionError")
       ELSE /\ active_stack' = SubSeq(active_stack, 1, Len(active_stack) - 1)
            /\ op' = Done(Op("exit", g, None),
                          IF current = g THEN None ELSE ExcV("AssertionError"))
            /\ Quiet
            /\ UNCHANGED <<world, constructed, parent, vertices, evaluation_stack, now,
                           frames, pending, clock_ties, mutated>>

InitEntry == Boot({"SingleInstanceDependency"}, MaxOpsEntry)

NextEntry ==
    \/ \E g \in Graphs : EnterAny(g)
    \/ \E g \in Graphs : ExitOf(g)
    \/ Construct(<<>>)
    \/ \E c \in Cells(world) : Read(c)
    \/ \E c \in Cells(world) : \E x \in Assignable(c) : Write(c, x)
    \/ \E c \in Cells(world) : Delete(c)
    \/ ExprRead
    \/ ExprReturn

SpecEntry == InitEntry /\ [][NextEntry]_vars

----------------------------------------------------------------------------
(* A clock with ties *)

\* One graph, the two-cell class, and a clock of which two consecutive draws
\* can be equal.
InitTies == Start({"SingleInstanceDependency"}, MaxOps, TRUE)

NextTies ==
    \/ Enter(Main)
    \/ Exit
    \/ \E kw \in {k \in Kwargs : k = <<>> \/ k[2] \in Assignable(k[1])} : Construct(kw)
    \/ \E c \in Cells(world) : Read(c)
    \/ \E c \in Cells(world) : \E x \in Assignable(c) : Write(c, x)
    \/ \E c \in Cells(world) : Assignable(c) # {} /\ Delete(c)
    \/ ExprRead
    \/ ExprReturn

SpecTies == InitTies /\ [][NextTies]_vars

----------------------------------------------------------------------------
(* Subscriptions *)

\* at most MaxSubs subscriptions are in place at a time
MaxSubs == 2
\* a run with subscribers that nests graphs makes at most MaxOpsSub cell
\* operations: it stays in graph Main
MaxOpsSub == 0

\* what the user subscribes to: a traceable (i.subscribe), a cell of the
\* class (Class.c.subscribe) or the vertex a read of i.c resolves to
\* (i.c.subscribe).  The runs subscribe to either traceable, to cell Output
\* and to the vertices of tr.
Targets ==
    {<<"traceable", i>> : i \in Traceables}
        \cup {<<"cell", "Output">>}
        \cup {<<"vertex", "tr", c>> : c \in Cells(world)}

\* subscribe (add = TRUE) or unsubscribe callback cb on target x; for a vertex
\* the target is first resolved by Cell.__get__ (Graph.read), which puts a
\* new vertex on the current graph when no graph of the chain holds the key
Subscription(x, cb, add) ==
    LET o == Op(IF add THEN "subscribe" ELSE "unsubscribe", "", None)
        change(n) == IF add THEN callbacks \cup {<<n, cb>>} ELSE callbacks \ {<<n, cb>>}
    IN
    /\ UNCHANGED <<budget, failed, wrappers>>
    /\ Idle
    /\ constructed
    /\ add \/ x[1] = "vertex" \/ <<x, cb>> \in callbacks
    /\ IF x[1] # "vertex"
       THEN /\ callbacks' = change(x)
            /\ op' = Done(o, None)
            /\ Quiet
            /\ UNCHANGED <<world, constructed, active_stack, parent, vertices,
                           evaluation_stack, now, frames, pending, clock_ties, mutated>>
       ELSE IF active_stack = <<>>
       THEN Fails(o, "ContextException") /\ UNCHANGED callbacks
       ELSE LET r == traceable_vertex(vertices, current, <<x[2], x[3]>>, "g") IN
            IF r.st = "hang" THEN Hangs(o) /\ UNCHANGED callbacks
            ELSE /\ add \/ <<<<"vertex", r.vid.g, x[2], x[3]>>, cb>> \in callbacks
                 /\ callbacks' = change(<<"vertex", r.vid.g, x[2], x[3]>>)
                 /\ Commit(r.vs, now)
                 /\ op' = Done(o, None)
                 /\ Quiet
                 /\ UNCHANGED <<world, constructed, active_stack, parent,
                                evaluation_stack, frames, pending, clock_ties>>

\* NotifierMixin.subscribe
Subscribe(x, cb) == Cardinality(callbacks) < MaxSubs /\ Subscription(x, cb, TRUE)

\* NotifierMixin.unsubscribe, of a callback that is subscribed
Unsubscribe(x, cb) == callbacks # {} /\ Subscription(x, cb, FALSE)

InitSub == Boot({"SingleInstanceDependency"}, MaxOpsSub)

NextSub ==
    \/ \E g \in Graphs : parent[g] = NoGraph /\ Enter(g)
    \/ Exit
    \/ Construct(<<>>)
    \/ \E c \in Cells(world) : Read(c)
    \/ \E c \in Cells(world) : \E x \in Assignable(c) : Write(c, x)
    \/ \E c \in Cells(world) : Delete(c)
    \/ ExprRead
    \/ ExprReturn
    \/ Unwind
    \/ \E x \in Targets : \E cb \in Callbacks : Subscribe(x, cb)
    \/ \E x \in Targets : \E cb \in Callbacks : Unsubscribe(x, cb)

SpecSub == InitSub /\ [][NextSub]_vars

----------------------------------------------------------------------------
(* Closures and generators *)

\* at most MaxBuilt wrappers are built in a run
MaxBuilt == 2
\* a run that builds wrappers makes at most MaxOpsWrap cell operations once it
\* nests graphs, and drives its wrappers only among its first MaxOpsWrap
\* cell operations
MaxOpsWrap == 4

\* cells whose expression returns a function or a generator
Deferred == {"Closure", "Generator"}

InitWrap == Boot({"AssignmentPlus"}, MaxOpsWrap)

NextWrap ==
    \/ \E g \in Graphs : parent[g] = NoGraph /\ Enter(g)
    \/ Exit
    \/ Construct(<<>>)
    \/ \E c \in Cells(world) : (c \in Deferred => Len(wrappers) < MaxBuilt) /\ Read(c)
    \/ \E c \in Cells(world) : \E x \in Assignable(c) : Write(c, x)
    \/ \E c \in Cells(world) : Assignable(c) # {} /\ Delete(c)
    \/ \E id \in 1..MaxBuilt : \E body \in Bodies(id) \cup {Advance} : Invoke(id, body)
    \/ ExprRead
    \/ ExprInvoke
    \/ ExprReturn
    \/ WrapReturn
    \/ Unwind

SpecWrap == InitWrap /\ [][NextWrap]_vars

----------------------------------------------------------------------------
(* Reference semantics used by the properties *)

\* What evaluating cell c from scratch yields in graph g under the overrides
\* in force there: the override that a lookup from g finds, else the value
\* of the expression over the cells it reads, or the exception that ends it.
RECURSIVE fresh(_, _, _)
RECURSIVE fresh_expr(_, _, _, _)

fresh_expr(g, c, vals, path) ==
    LET i == Expr(c, vals) IN
    CASE i.k = "return" -> i.v
      [] i.k = "raise" -> ExcV(i.e)
      [] i.k = "set" -> ExcV("DependencyException")
      [] i.k = "read" ->
            LET x == fresh(g, i.c, path \cup {c}) IN
            IF x.t = "exc" THEN x ELSE fresh_expr(g, c, Append(vals, x), path)

fresh(g, c, path) ==
    LET r == traceable_vertex(vertices, g, graph_key(c), "t") IN
    IF r.st = "ok" /\ is_override(Get(vertices, r.vid)) THEN Get(vertices, r.vid).value
    ELSE IF c \in path THEN ExcV("LoopException")
    ELSE fresh_expr(g, c, <<>>, path)

\* the cells whose vertices evaluating cell c from scratch in graph g calls
RECURSIVE uses(_, _, _)
RECURSIVE uses_expr(_, _, _, _)

uses_expr(g, c, vals, path) ==
    LET i == Expr(c, vals) IN
    IF i.k # "read" THEN {}
    ELSE LET x == fresh(g, i.c, path \cup {c}) IN
         {i.c} \cup uses(g, i.c, path \cup {c})
               \cup (IF x.t = "exc" THEN {} ELSE uses_expr(g, c, Append(vals, x), path))

uses(g, c, path) ==
    LET r == traceable_vertex(vertices, g, graph_key(c), "t") IN
    IF r.st = "ok" /\ is_override(Get(vertices, r.vid)) THEN {}
    ELSE IF c \in path THEN {}
    ELSE uses_expr(g, c, <<>>, path)

\* the user has just been handed the outcome of reading cell c
ReadDone(c) == Idle /\ op.name = "get" /\ op.cell = c /\ op.status = "done"

\* this step is the user calling tr.c()
UserRead(c) == Idle /\ active_stack # <<>> /\ op'.name = "get" /\ op'.cell = c

\* this step is the expression on top of frames calling self.c()
NestedRead(c) == Running /\ Instr.k = "read" /\ Instr.c = c

\* this step hands value x to whoever made the call
Receives(x) ==
    IF frames = <<>>
    THEN op'.status = "done" /\ op'.result = x
    ELSE /\ Len(frames') = Len(frames)
         /\ frames'[Len(frames)].vals = Append(Top.vals, x)

----------------------------------------------------------------------------
(* C1 *)

\* C1: graph nesting isolation.  When a nested graph exits, no vertex in the
\* table of any other graph has been changed since it was entered, and a
\* read in the outer graph then returns the value of the cell under the
\* outer graph's own overrides (the value it returned before).
C1_NestingIsolation ==
    /\ (op.name = "exit" /\ active_stack # <<>>) => mutated = {}
    /\ \A c \in Cells(world) :
         (ReadDone(c) /\ active_stack = <<Main>> /\ fresh(Main, c, {}).t # "exc")
            => op.result = fresh(Main, c, {})

----------------------------------------------------------------------------
(* C2 *)

\* C2: an overridden vertex is clean whatever its dependencies are, its
\* expression is never being evaluated, and a read that resolves to it (by
\* the user or by another cell's expression) hands back the override value
\* in that very step, leaving the vertex overridden with that value.
C2_OverrideShortCircuits ==
    [][/\ \A g \in Graphs : \A k \in DOMAIN vertices[g] :
            is_override(vertices[g][k]) =>
                /\ \A cg \in Graphs : is_dirty(vertices, cg, Vid(g, k), {}) = {"clean"}
                /\ \A i \in DOMAIN frames : frames[i].vid # Vid(g, k)
       /\ \A c \in Cells(world) :
            IF UserRead(c) \/ NestedRead(c)
            THEN LET r == traceable_vertex(vertices, current, graph_key(c), "t") IN
                 (r.st = "ok" /\ is_override(Get(vertices, r.vid)))
                    => /\ Receives(Get(vertices, r.vid).value)
                       /\ pending' = NoExc
                       /\ Len(frames') = Len(frames)
                       /\ is_override(Get(vertices', r.vid))
                       /\ Get(vertices', r.vid).value = Get(vertices, r.vid).value
            ELSE TRUE
      ]_vars

\* C2 witness: in the diamond, X was evaluated once (last_known 6), then
\* overridden with 20, and the user's read of Z returned 40 + 10
C2_Witness ==
    /\ world = "Diamond"
    /\ ReadDone("Z")
    /\ op.result = IntV(50)
    /\ graph_key("X") \in DOMAIN vertices[Main]
    /\ vertices[Main][graph_key("X")].last_known = IntV(6)
    /\ vertices[Main][graph_key("X")].overridden # NoTime
    /\ vertices[Main][graph_key("X")].value = IntV(20)

----------------------------------------------------------------------------
(* C3 *)

\* C3: staleness propagation within one graph.  In a run that has only ever
\* used graph Main, whenever user code runs, a cached vertex whose value
\* differs from what its expression yields over the current upstream values
\* is found dirty, and a completed read returned that current value: after
\* an override or its removal upstream, no read returns the value cached
\* before the change.
C3_StalenessPropagates ==
    (Single(active_stack, parent, vertices) /\ active_stack = <<Main>> /\ Idle) =>
        \A c \in Cells(world) :
            LET f == fresh(Main, c, {})
                k == graph_key(c)
            IN  f.t # "exc" =>
                  /\ (k \in DOMAIN vertices[Main]
                        /\ ~is_override(vertices[Main][k])
                        /\ vertices[Main][k].value # f)
                       => "clean" \notin is_dirty(vertices, Main, Vid(Main, k), {})
                  /\ ReadDone(c) => op.result = f

----------------------------------------------------------------------------
(* C4 *)

\* C4: the read of V that directly follows a del which removed V's override
\* returns what V's expression yields over the current upstream values, in
\* whatever graph this happens.
C4_ReadAfterClearIsFresh ==
    \A c \in Cells(world) :
        (ReadDone(c) /\ op.cleared /\ active_stack # <<>>)
            => LET f == fresh(current, c, {}) IN
               f.t # "exc" => op.result = f

----------------------------------------------------------------------------
(* C5 *)

\* every field of v that undefine() wipes is absent
Undefined(v) ==
    /\ v.evaluated = NoTime
    /\ v.overridden = NoTime
    /\ v.last_known = None
    /\ v.dependency_keys = {}
    /\ v.value = None

\* C5: in the class whose three cells read each other cyclically, used in
\* one graph, a completed read ended as the expressions prescribe under the
\* overrides in force (LoopException while no cell of the cycle is
\* overridden, the chained value once one is), and the step that raises
\* LoopException leaves the vertex it found on the stack undefined, with
\* touched the latest clock reading.
C5_CycleRaisesLoopException ==
    [][(world = "Loop" /\ Single(active_stack, parent, vertices)) =>
        /\ \A c \in Cells(world) :
             (ReadDone(c) /\ active_stack = <<Main>>) => op.result = fresh(Main, c, {})
        /\ (pending = NoExc /\ pending' = "LoopException") =>
             LET vid == Vid(Main, graph_key(Instr.c)) IN
             /\ Undefined(Get(vertices', vid))
             /\ Get(vertices', vid).touched = now'
      ]_vars

----------------------------------------------------------------------------
(* C6 *)

\* C6: when a user exception or a LoopException leaves the evaluation of a
\* vertex (its frame is popped with the exception pending), that vertex is
\* undefined afterwards.
C6_FailedEvaluationUndefines ==
    [][(/\ frames # <<>>
        /\ pending \in UserExceptions \cup {"LoopException"}
        /\ Len(frames') < Len(frames))
          => Undefined(Get(vertices', Top.vid))
      ]_vars

----------------------------------------------------------------------------
(* C7 *)

\* C7: once an evaluation of a vertex has failed with a user exception,
\* every completed read that resolves to that vertex ended as the
\* expressions prescribe under the overrides in force in the current graph:
\* with the user exception for as long as the failing condition persists
\* (never with a value cached earlier), and with the new value once an
\* upstream override resolves it.
C7_FailedReadsReRaise ==
    \A c \in Cells(world) :
        (ReadDone(c) /\ active_stack # <<>>)
            => LET r == traceable_vertex(vertices, current, graph_key(c), "t") IN
               (r.st = "ok" /\ r.vid \in failed) => op.result = fresh(current, c, {})

----------------------------------------------------------------------------
(* C8 *)

\* C8: when the expression being evaluated assigns a cell, the step raises
\* DependencyException and leaves every vertex table, the clock and the
\* subscribers untouched; an assignment by the user, made while no
\* evaluation is in progress in any graph, is accepted and leaves the cell
\* overridden with the assigned value in the current graph.
C8_OverrideInEvaluationRejected ==
    [][/\ (Running /\ Instr.k = "set") =>
            /\ pending' = "DependencyException"
            /\ vertices' = vertices
            /\ now' = now
            /\ broadcast' = {}
       /\ (Idle /\ active_stack # <<>> /\ op'.name = "set") =>
            /\ \A g \in Graphs : evaluation_stack[g] = <<>>
            /\ op'.result = None
            /\ graph_key(op'.cell) \in DOMAIN vertices'[current]
            /\ is_override(vertices'[current][graph_key(op'.cell)])
            /\ vertices'[current][graph_key(op'.cell)].value = op'.val
      ]_vars

\* C8 witness: the user had overridden SomeValue with 'xyz'; the expression
\* of AnotherValue then tried to assign it and DependencyException is
\* propagating while SomeValue is still overridden with 'xyz'
C8_Witness ==
    /\ world = "Rogue"
    /\ pending = "DependencyException"
    /\ frames # <<>>
    /\ active_stack = <<Main>>
    /\ graph_key("SomeValue") \in DOMAIN vertices[Main]
    /\ is_override(vertices[Main][graph_key("SomeValue")])
    /\ vertices[Main][graph_key("SomeValue")].value = StrV(xyz)

----------------------------------------------------------------------------
(* C9 *)

\* C9: with no active graph, constructing the traceable, reading a cell,
\* assigning a cell and deleting a cell each end with ContextException and
\* change no vertex table; and after a graph is entered it is the current
\* one, after it exits the one entered before it is.
C9_NoActiveGraph ==
    [][/\ (Idle /\ active_stack = <<>> /\ op'.name \in {"new", "get", "set", "del"}) =>
            /\ op'.status = "done"
            /\ op'.result = ExcV("ContextException")
            /\ vertices' = vertices
            /\ active_stack' = <<>>
            /\ constructed' = constructed
       /\ (Idle /\ Len(active_stack') > Len(active_stack)) =>
            /\ op'.name = "enter"
            /\ current' = op'.cell
       /\ (Idle /\ Len(active_stack') < Len(active_stack) /\ active_stack' # <<>>) =>
            current' = active_stack[Len(active_stack) - 1]
      ]_vars

\* C9 witness: the last graph has exited, its table is not empty, and the
\* read the user then made ended with ContextException
C9_Witness ==
    /\ Idle
    /\ active_stack = <<>>
    /\ constructed
    /\ vertices[Main] # <<>>
    /\ op.name = "get"
    /\ op.result = ExcV("ContextException")

----------------------------------------------------------------------------
(* C10 *)

\* every vertex there can be
AllVids == {Vid(g, graph_key(c)) : g \in Graphs, c \in Cells(world)}

\* the value field of a vertex, None while the vertex does not exist
ValueOf(vs, vid) == IF vid.k \in DOMAIN vs[vid.g] THEN vs[vid.g][vid.k].value ELSE None

\* the vertices whose value this step changes to an un-equal value
Changed == {vid \in AllVids : ValueOf(vertices', vid) # ValueOf(vertices, vid)}

\* what subscribers are told of such a change
Payload(vid) ==
    [traceable |-> "tr", cell |-> name(vid.k[2]),
     new |-> ValueOf(vertices', vid), old |-> ValueOf(vertices, vid)]

\* C10 as stated: the broadcasts of a step are exactly the payloads of the
\* vertices whose value the step changed to an un-equal value.
C10_NotifyOnEveryChange ==
    [][broadcast' = {Payload(vid) : vid \in Changed}]_vars

\* C10 amended: every broadcast of a step is the payload of a vertex whose
\* value the step changed to an un-equal value, at most one per step; a step
\* that assigns (the user's override, the constructor's, or an expression
\* returning) broadcasts exactly the changes it makes; the only steps that
\* change a value without a broadcast are the removal of an override and the
\* undefine of loop detection.
C10_NotifyOnAssignOnly ==
    [][/\ broadcast' \subseteq {Payload(vid) : vid \in Changed}
       /\ Cardinality(broadcast') <= 1
       /\ (Changed # {} /\ broadcast' = {}) =>
            \/ Idle /\ op'.name = "del"
            \/ pending = NoExc /\ pending' = "LoopException"
       /\ ((Idle /\ op'.name \in {"set", "new"}) \/ (Running /\ Instr.k = "return")) =>
            broadcast' = {Payload(vid) : vid \in Changed}
      ]_vars

\* C10 witness: Input had been evaluated to 1 and then overridden with another
\* value; the del that removed the override has put the value back to 1 and
\* no subscriber was told
C10_Witness ==
    /\ world = "SingleInstanceDependency"
    /\ Idle
    /\ active_stack = <<Main>>
    /\ op.name = "del"
    /\ op.cell = "Input"
    /\ op.cleared
    /\ broadcast = {}
    /\ vertices[Main][graph_key("Input")].value = IntV(1)

----------------------------------------------------------------------------
(* C13 *)

TimeFields == {"evaluated", "overridden", "touched"}

\* the clock readings the table of graph h holds, each with its place
Stamps(vs, h) == {<<k, f>> : k \in DOMAIN vs[h], f \in TimeFields}

\* this step leaves the table of graph h as it was: the same vertices, each
\* with the same value, last_known and dependency_keys, the same readings
\* absent, and the readings it holds in the same order (a state keeps clock
\* readings by rank, so their numbers may shift down)
Kept(h) ==
    /\ DOMAIN vertices'[h] = DOMAIN vertices[h]
    /\ \A k \in DOMAIN vertices[h] :
         /\ vertices'[h][k].value = vertices[h][k].value
         /\ vertices'[h][k].last_known = vertices[h][k].last_known
         /\ vertices'[h][k].dependency_keys = vertices[h][k].dependency_keys
         /\ \A f \in TimeFields : (vertices'[h][k][f] = NoTime) = (vertices[h][k][f] = NoTime)
    /\ \A a, b \in Stamps(vertices, h) :
         (vertices'[h][a[1]][a[2]] < vertices'[h][b[1]][b[2]])
            = (vertices[h][a[1]][a[2]] < vertices[h][b[1]][b[2]])

\* every clock reading the table of graph h holds after this step is older
\* than reading t
Older(h, t) == \A a \in Stamps(vertices', h) : vertices'[h][a[1]][a[2]] < t

\* this step is the user's tr.c = x or the constructor's setattr, accepted
Overrides == Idle /\ op'.name \in {"set", "new"} /\ op'.cell # "" /\ op'.result = None

\* C13: copy-on-write override.  An accepted assignment made while graph G is
\* current leaves the cell overridden with the assigned value on a vertex of
\* G's own table, stamped with the reading just drawn; when G's table had no
\* vertex for the key the vertex is a fresh one (never evaluated, no
\* dependencies), also when an ancestor holds one; and the table of every
\* other graph is left as it was, none of its fields taking the new reading.
C13_OverrideCopiesOnWrite ==
    [][Overrides =>
        LET k == graph_key(op'.cell)
            G == current
        IN  /\ k \in DOMAIN vertices'[G]
            /\ vertices'[G][k].value = op'.val
            /\ vertices'[G][k].overridden = now'
            /\ vertices'[G][k].touched = now'
            /\ k \notin DOMAIN vertices[G] =>
                 /\ vertices'[G][k].evaluated = NoTime
                 /\ vertices'[G][k].last_known = None
                 /\ vertices'[G][k].dependency_keys = {}
            /\ \A h \in Graphs \ {G} : Kept(h) /\ Older(h, now')
      ]_vars

\* C13 witness: Main holds an evaluated, not overridden vertex for Input; the
\* user has just assigned Input in the nested graph, whose table now holds a
\* vertex of its own that was never evaluated
C13_Witness ==
    /\ world = "SingleInstanceDependency"
    /\ Idle
    /\ Len(active_stack) = 2
    /\ op.name = "set"
    /\ op.cell = "Input"
    /\ op.result = None
    /\ graph_key("Input") \in DOMAIN vertices[Main]
    /\ vertices[Main][graph_key("Input")].evaluated # NoTime
    /\ ~is_override(vertices[Main][graph_key("Input")])
    /\ graph_key("Input") \in DOMAIN vertices[current]
    /\ vertices[current][graph_key("Input")].evaluated = NoTime
    /\ is_override(vertices[current][graph_key("Input")])

----------------------------------------------------------------------------
(* C14 *)

\* the nearest graph above g that holds key holds it overridden
AncestorOverrides(g, key) ==
    LET r == search_up(vertices, parent[g], key, {}) IN
    r.st = "found" /\ is_override(vertices[r.g][key])

\* C14: deleting through an ancestor's override.  A del made in graph G2
\* whose table holds no vertex for the key, while the nearest ancestor vertex
\* is an override, puts a new vertex with every field at its default on G2
\* and leaves every other table, the ancestor's override included, as it is,
\* without a broadcast; and the read that directly follows in G2, of a cell
\* whose value in G2 depends on the deleted one, returns what the
\* expressions yield under the overrides then in force in G2 (that of the
\* ancestor no longer among them).
C14_DeleteShadowsAncestorOverride ==
    [][/\ (/\ Idle /\ active_stack # <<>> /\ op'.name = "del"
           /\ graph_key(op'.cell) \notin DOMAIN vertices[current]
           /\ AncestorOverrides(current, graph_key(op'.cell)))
          => /\ op'.result = None
             /\ op'.shadowed = op'.cell
             /\ graph_key(op'.cell) \in DOMAIN vertices'[current]
             /\ vertices'[current][graph_key(op'.cell)] = TraceableVertex
             /\ \A h \in Graphs \ {current} : vertices'[h] = vertices[h]
             /\ broadcast' = {}
       /\ \A c \in Cells(world) :
            (/\ ReadDone(c) /\ active_stack # <<>> /\ op.shadowed # ""
             /\ op.shadowed \in uses(current, c, {}))
               => op.result = fresh(current, c, {})
      ]_vars

\* C14 witness (as in test_override): Input is overridden with -1 in Main; in
\* the nested graph del Input has put a vertex of its own there, and the read
\* of Output that followed returned 1 + 1 while Main's vertex for Input is
\* still overridden with -1
C14_Witness ==
    /\ world = "SingleInstanceDependency"
    /\ Len(active_stack) = 2
    /\ ReadDone("Output")
    /\ op.shadowed = "Input"
    /\ op.result = IntV(2)
    /\ graph_key("Input") \in DOMAIN vertices[current]
    /\ is_override(vertices[Main][graph_key("Input")])
    /\ vertices[Main][graph_key("Input")].value = IntV(-1)

----------------------------------------------------------------------------
(* C15 *)

\* the graph n parent links above g, NoGraph beyond the outermost one
RECURSIVE Above(_, _)
Above(g, n) ==
    IF n = 0 \/ g = NoGraph THEN g ELSE Above(parent[g], n - 1)

\* the nearest graph, from g upwards, whose table holds key; NoGraph if none
Holder(g, key) ==
    LET ns == {n \in 0..Cardinality(Graphs) :
                  Above(g, n) # NoGraph /\ key \in DOMAIN vertices[Above(g, n)]}
    IN  IF ns = {} THEN NoGraph
        ELSE Above(g, CHOOSE n \in ns : \A m \in ns : n <= m)

\* resolution for get and for trace, in every graph and for every key: the
\* vertex of the nearest holder, no table changed; with no holder, get puts a
\* new vertex on the graph itself and trace finds nothing
ReadThroughResolution ==
    \A g \in Graphs : \A c \in Cells(world) :
        LET k == graph_key(c)
            h == Holder(g, k)
            rg == traceable_vertex(vertices, g, k, "g")
            rt == traceable_vertex(vertices, g, k, "t")
        IN  /\ rt.vs = vertices
            /\ IF h # NoGraph
               THEN /\ rt.st = "ok" /\ rt.vid = Vid(h, k)
                    /\ rg.st = "ok" /\ rg.vid = Vid(h, k) /\ rg.vs = vertices
               ELSE /\ rt.st = "none"
                    /\ rg.st = "ok" /\ rg.vid = Vid(g, k)
                    /\ rg.vs = Put(vertices, Vid(g, k), TraceableVertex)

\* a step that calls a cell, for the user or for an expression, adds a
\* vertex to the current graph's table when no graph of the chain holds the
\* key, and to no table otherwise
ReadsCreateOnlyUnheld ==
    \A c \in Cells(world) :
        (UserRead(c) \/ NestedRead(c)) =>
            \A g \in Graphs :
                DOMAIN vertices'[g] =
                    DOMAIN vertices[g]
                        \cup (IF g = current /\ Holder(current, graph_key(c)) = NoGraph
                              THEN {graph_key(c)} ELSE {})

\* C15: read-through resolution, and a read in a child graph whose table
\* holds no overridden vertex returns the value the parent's overrides
\* determine.
C15_ReadThrough ==
    [][/\ ReadThroughResolution
       /\ ReadsCreateOnlyUnheld
       /\ \A c \in Cells(world) :
            (/\ ReadDone(c) /\ Len(active_stack) = 2
             /\ \A k \in DOMAIN vertices[current] : ~is_override(vertices[current][k]))
               => \A x \in {fresh(Main, c, {})} : x.t # "exc" => op.result = x
      ]_vars

----------------------------------------------------------------------------
(* C16 *)

\* this step leaves every vertex other than vid as it was, none of them
\* taking the reading the step drew
OthersKept(vid) ==
    /\ \A h \in Graphs \ {vid.g} : Kept(h) /\ Older(h, now')
    /\ DOMAIN vertices'[vid.g] = DOMAIN vertices[vid.g]
    /\ \A k \in DOMAIN vertices[vid.g] \ {vid.k} :
         /\ vertices'[vid.g][k].value = vertices[vid.g][k].value
         /\ vertices'[vid.g][k].last_known = vertices[vid.g][k].last_known
         /\ vertices'[vid.g][k].dependency_keys = vertices[vid.g][k].dependency_keys
         /\ \A f \in TimeFields :
              /\ (vertices'[vid.g][k][f] = NoTime) = (vertices[vid.g][k][f] = NoTime)
              /\ vertices'[vid.g][k][f] < now'

\* C16: clearing an override.  A del that reaches an overridden vertex clears
\* overridden, stamps touched with a reading newer than every other one,
\* puts last_known back as the value, keeps the other fields and every other
\* vertex, and broadcasts nothing; a del that reaches a vertex that is not
\* overridden, or none, changes no field of any vertex, draws no reading and
\* broadcasts nothing.  A vertex that is not overridden always has value =
\* last_known, and the only steps that broadcast are an accepted assignment
\* and the return of an expression, the latter exactly when the returned
\* value differs from the vertex's last_known, with that as the old value.
C16_RemoveOverride ==
    [][/\ (Idle /\ active_stack # <<>> /\ op'.name = "del") =>
            LET r == traceable_vertex(vertices, current, graph_key(op'.cell), "d") IN
            /\ broadcast' = {}
            /\ op'.result = None
            /\ IF r.st = "ok" /\ is_override(Get(r.vs, r.vid))
               THEN LET v == Get(vertices, r.vid)
                        w == Get(vertices', r.vid)
                    IN  /\ w.overridden = NoTime
                        /\ w.touched = now'
                        /\ w.evaluated < now'
                        /\ (w.evaluated = NoTime) = (v.evaluated = NoTime)
                        /\ w.value = v.last_known
                        /\ w.last_known = v.last_known
                        /\ w.dependency_keys = v.dependency_keys
                        /\ OthersKept(r.vid)
               ELSE /\ vertices' = r.vs
                    /\ \A g \in Graphs : \A k \in DOMAIN vertices[g] :
                         vertices'[g][k] = vertices[g][k]
                    /\ now' = now
       /\ \A g \in Graphs : \A k \in DOMAIN vertices[g] :
            ~is_override(vertices[g][k]) => vertices[g][k].value = vertices[g][k].last_known
       /\ (Running /\ Instr.k = "return") =>
            LET v == Get(vertices, Top.vid) IN
            broadcast' = IF Instr.v # v.last_known
                         THEN {[traceable |-> "tr", cell |-> name(Top.vid.k[2]),
                                new |-> Instr.v, old |-> v.last_known]}
                         ELSE {}
       /\ broadcast' # {} =>
            \/ Running /\ Instr.k = "return"
            \/ Idle /\ op'.name \in {"set", "new"}
      ]_vars

\* C16 witness (as in test_single_vertex_sub_unsub): Output had been
\* evaluated to 2, Input overridden with -1, Output overridden and the
\* override removed by del; the read of Output right after the del evaluated
\* it again and subscribers were told of the change from 2 to 0
C16_Witness ==
    /\ world = "SingleInstanceDependency"
    /\ active_stack = <<Main>>
    /\ ReadDone("Output")
    /\ op.cleared
    /\ op.result = IntV(0)
    /\ broadcast = {[traceable |-> "tr", cell |-> "Output", new |-> IntV(0), old |-> IntV(2)]}

----------------------------------------------------------------------------
(* C20 *)

\* C20: timestamps of a vertex.  Whenever evaluated or overridden is present
\* so is touched, and touched is at least as late as either; no reading is
\* later than the last one drawn.  This holds in every state: in the middle
\* of evaluations, after dependency additions, overrides, removals,
\* undefines and failed evaluations.
C20_TouchedIsLatest ==
    \A g \in Graphs : \A k \in DOMAIN vertices[g] :
        LET v == vertices[g][k] IN
        /\ (v.evaluated # NoTime \/ v.overridden # NoTime) => v.touched # NoTime
        /\ v.touched >= v.evaluated
        /\ v.touched >= v.overridden
        /\ v.touched <= now

\* C20 witness: a vertex that was evaluated, later overridden and then
\* touched again by the removal of the override, next to one whose evaluation
\* failed and was undefined (touched present, evaluated absent)
C20_Witness ==
    /\ world = "Loop"
    /\ Idle
    /\ graph_key("Third") \in DOMAIN vertices[Main]
    /\ graph_key("Second") \in DOMAIN vertices[Main]
    /\ vertices[Main][graph_key("Third")].evaluated # NoTime
    /\ vertices[Main][graph_key("Third")].overridden = NoTime
    /\ vertices[Main][graph_key("Third")].touched > vertices[Main][graph_key("Third")].evaluated
    /\ vertices[Main][graph_key("Second")].evaluated = NoTime
    /\ vertices[Main][graph_key("Second")].touched # NoTime
    /\ op.name = "del"
    /\ op.cleared

----------------------------------------------------------------------------
(* C11 *)

\* the vertex a broadcasting step assigns: the one whose expression returns,
\* or the one an assignment lands on
Assigned == IF Running THEN Top.vid ELSE Vid(current, graph_key(op'.cell))

\* the callbacks subscribed to vertex vid, to its traceable or to its cell
Audience(vid) ==
    subscribers(<<"vertex", vid.g, vid.k[1], vid.k[2]>>)
        \cup subscribers(<<"traceable", vid.k[1]>>)
        \cup subscribers(<<"cell", vid.k[2]>>)

\* C11: a step that broadcasts for vertex V, with no callback raising, calls
\* exactly the callbacks subscribed to V, to V's traceable or to V's cell,
\* each once however many of the three it is subscribed to; callbacks
\* subscribed only to the other traceable or to other vertices are not
\* called.  A step that does not broadcast calls nothing, and no callback is
\* ever called twice in a step or from outside that audience.
C11_BroadcastAudience ==
    [][/\ broadcast' = {} => invoked' = NoCalls
       /\ broadcast' # {} =>
            \A cb \in Callbacks :
                /\ invoked'[cb].n <= 1
                /\ invoked'[cb].n = 1 => cb \in Audience(Assigned)
                /\ (pending' = NoExc /\ cb \in Audience(Assigned)) => invoked'[cb].n = 1
      ]_vars

\* C11 witness (as in test_same_cb_one_call_per_vertex): cb is subscribed to
\* the vertex of Output and to tr; the evaluation of Output has just
\* broadcast and called cb once
C11_Witness ==
    /\ ReadDone("Output")
    /\ callbacks = {<<<<"vertex", Main, "tr", "Output">>, "cb">>, <<<<"traceable", "tr">>, "cb">>}
    /\ broadcast # {}
    /\ invoked["cb"].n = 1
    /\ invoked["reread"].n = 0

----------------------------------------------------------------------------
(* C17 *)

\* C17: in a step that broadcasts for vertex V to a callback that reads V
\* again, be it an assignment or the return of V's expression, the re-read
\* obtains the new value, nothing is raised, and V holds the new value
\* afterwards.
C17_CallbackReReadsNewValue ==
    [][(broadcast' # {} /\ "reread" \in Audience(Assigned)) =>
        \A b \in broadcast' :
            /\ invoked'["reread"].got = b.new
            /\ pending' = NoExc
            /\ Get(vertices', Assigned).value = b.new
      ]_vars

----------------------------------------------------------------------------
(* C18 *)

\* this step is a wrapper being driven: wrap pushed its vertex and the
\* function or generator now runs
Driven == Len(frames') = Len(frames) + 1 /\ frames'[Len(frames')].w # 0

\* this step is the function or generator of a wrapper reading cell c, and
\* the read does not raise
ReadInCall(c) ==
    /\ Running
    /\ Top.w # 0
    /\ Instr.k = "read"
    /\ Instr.c = c
    /\ pending' = NoExc

\* the cell read by the function or generator of a wrapper of V is among
\* the dependencies of V once the read is made
ReadsInCallRegistered ==
    \A c \in Cells(world) :
        ReadInCall(c) => graph_key(c) \in Get(vertices', Top.vid).dependency_keys

\* C18: a wrapper of V that is driven pushes V onto the evaluation stack of
\* the graph that is current at that moment and touches the stack of no
\* other graph, also when the wrapper was built while another graph was
\* current; and the cells read during the call become dependencies of V.
C18_WrapperUsesCurrentGraph ==
    [][/\ Driven =>
            /\ evaluation_stack'[current] =
                    Append(evaluation_stack[current], frames'[Len(frames')].vid)
            /\ \A g \in Graphs \ {current} : evaluation_stack'[g] = evaluation_stack[g]
       /\ ReadsInCallRegistered]_vars

----------------------------------------------------------------------------
(* C19 *)

\* the vertices that the calls in progress pushed on the stack of graph g
\* and have not popped yet, oldest first
Pushed(g) ==
    LET on(f) == f.cg = g
        fs == SelectSeq(frames, on)
    IN  [i \in 1..Len(fs) |-> fs[i].vid]

\* C19: the evaluation stack of every graph holds exactly the vertices of
\* the reads, wrapper calls and generator advances that are in progress,
\* in the order they were pushed: a call that returned or raised has popped
\* the frame it pushed and no other, also when the push of a wrapper finds
\* its vertex on the stack, and between two statements of the user every
\* stack is empty.
C19_StackBalanced == \A g \in Graphs : evaluation_stack[g] = Pushed(g)

----------------------------------------------------------------------------
(* C12 *)

\* the function the user has just been handed by a read of cell Closure was
\* built from the value that cell AbcByDefault has in the current graph
BuiltFromCurrent ==
    (ReadDone("Closure") /\ active_stack # <<>> /\ op.result.t = "wrapper") =>
        /\ wrappers[op.result.id].func.t = "function"
        /\ StrV(wrappers[op.result.id].func.m) = fresh(current, "AbcByDefault", {})

\* C12: while the function returned by V's expression runs, called through
\* its wrapper with V not on the evaluation stack, V is on the stack, and
\* every cell the function reads is added to V.dependency_keys; and a read
\* of V hands out a function built from the present value of the cell read
\* while building it, so a change of that cell is followed by a freshly
\* built function.
C12_ClosureDependencyCapture ==
    [][/\ \A c \in Cells(world) :
            (ReadInCall(c) /\ wrappers[Top.w].func.t = "function") =>
                /\ Top.vid \in Range(evaluation_stack[current])
                /\ graph_key(c) \in Get(vertices', Top.vid).dependency_keys
       /\ BuiltFromCurrent]_vars

----------------------------------------------------------------------------
(* C21 *)

\* this step is the user entering graph g
EnterStep(g) == Idle /\ op'.name = "enter" /\ op'.cell = g /\ op'.status = "done"

\* this step is the user leaving a graph through g.__exit__
ExitStep(g) == Idle /\ op'.name = "exit" /\ op'.cell = g /\ op'.status = "done"

\* every graph on the active stack above the bottom has as parent the graph
\* right beneath it
ParentsBeneath ==
    \A i \in 2..Len(active_stack) : parent[active_stack[i]] = active_stack[i - 1]

\* C21: graph entry is checked.  Entering g while another graph is active
\* succeeds only if g has no parent or its parent is the innermost active
\* graph, and then g's parent is that graph and g is pushed; with another
\* parent the entry fails and nothing is pushed or changed.  So every graph
\* on the active stack above the bottom has as parent the graph beneath it,
\* and an exit pops the graph entered last and no other.
C21_EntryChecked ==
    [][/\ \A g \in Graphs :
            EnterStep(g) =>
                IF active_stack = <<>>
                THEN /\ active_stack' = <<g>>
                     /\ parent' = parent
                     /\ op'.result = None
                ELSE IF parent[g] = NoGraph \/ parent[g] = current
                THEN /\ active_stack' = Append(active_stack, g)
                     /\ parent' = [parent EXCEPT ![g] = current]
                     /\ op'.result = None
                ELSE /\ active_stack' = active_stack
                     /\ parent' = parent
                     /\ op'.result = ExcV("AssertionError")
       /\ \A g \in Graphs :
            (ExitStep(g) /\ active_stack # <<>>) =>
                /\ active_stack' = SubSeq(active_stack, 1, Len(active_stack) - 1)
                /\ parent' = parent
       /\ ParentsBeneath'
      ]_vars

\* C21 witness: with one graph active, the entry of a graph whose parent is
\* another graph has just failed, and nothing was pushed
C21_Witness ==
    /\ Idle
    /\ op.name = "enter"
    /\ op.result = ExcV("AssertionError")
    /\ Len(active_stack) = 1
    /\ parent[op.cell] \notin {NoGraph, current}

----------------------------------------------------------------------------
(* C22 *)

\* C22: whatever graphs were entered and left, in whatever order, no graph
\* is its own ancestor, and so the ancestor walk of Graph.traceable_vertex
\* ends from every graph, in every mode and for every key, held or not:
\* no call hangs.
C22_ParentAcyclic ==
    /\ \A g \in Graphs : \A n \in 1..Cardinality(Graphs) : Above(g, n) # g
    /\ \A g \in Graphs : \A c \in Cells(world) : \A mode \in {"d", "g", "s", "t"} :
            traceable_vertex(vertices, g, graph_key(c), mode).st # "hang"
    /\ pending # "hang"

----------------------------------------------------------------------------
(* C23 *)

\* C23: staleness does not depend on the clock being strict.  With clock
\* draws that can be equal, in one graph, whenever user code runs a cached
\* vertex whose value is not what its expression yields over the current
\* upstream values is dirty, and a completed read returned that current
\* value: after an override or its removal of W at the clock value at which
\* dependent V was evaluated, the next read of V recomputes V.
C23_TiesStillStale ==
    (active_stack = <<Main>> /\ Idle) =>
        \A c \in Cells(world) :
            /\ (/\ graph_key(c) \in DOMAIN vertices[Main]
                /\ ~is_override(vertices[Main][graph_key(c)])
                /\ vertices[Main][graph_key(c)].value # fresh(Main, c, {}))
                  => is_dirty(vertices, Main, Vid(Main, graph_key(c)), {}) = {"dirty"}
            /\ ReadDone(c) => op.result = fresh(Main, c, {})

----------------------------------------------------------------------------
(* C24 *)

\* C24: memoization.  A read of V that directly follows a read of V which
\* returned a value, with no other statement in between, finds V clean: it
\* returns the same value at once, and neither V's expression nor any
\* upstream expression is invoked again.
C24_Memoization ==
    [][\A c \in Cells(world) :
          (UserRead(c) /\ ReadDone(c) /\ op.result.t # "exc") =>
              /\ op'.status = "done"
              /\ op'.result = op.result
              /\ frames' = <<>>
      ]_vars

(***************************************************************************)
(* C25  Dependency registration                                            *)
(***************************************************************************)

\* the vertex a nested read of cell c resolves to in the current graph
Resolved(c) == traceable_vertex(vertices, current, graph_key(c), "g")

\* the vertices under evaluation beneath the top of the stack
Beneath == {frames[i].vid : i \in 1..Len(frames) - 1}

\* A nested read of cell c that resolves to a vertex W other than the one on
\* top, W not being under evaluation already (push_vertex undefines such a W
\* and raises LoopException without registering it), leaves W's key among
\* the top vertex's dependency keys and adds no key to a vertex lower on the
\* stack.
Registers ==
    \A c \in Cells(world) :
        (/\ NestedRead(c)
         /\ Resolved(c).st = "ok"
         /\ Resolved(c).vid # Top.vid
         /\ Resolved(c).vid \notin Beneath) =>
            /\ graph_key(c) \in Get(vertices', Top.vid).dependency_keys
            /\ \A x \in Beneath \ {Top.vid} :
                  Get(vertices', x).dependency_keys \subseteq
                      Get(vertices, x).dependency_keys

\* the keys of the cells the expression of c read itself to obtain vals
DirectReads(c, vals) ==
    {graph_key(Expr(c, SubSeq(vals, 1, j)).c) :
        j \in {i \in 0..Len(vals) - 1 : Expr(c, SubSeq(vals, 1, i)).k = "read"}}

\* When the expression of the vertex on top returns and the evaluation
\* succeeds, the vertex's dependency keys are the keys its expression read.
ExactAfterEvaluation ==
    (/\ Running /\ Top.w = 0 /\ Instr.k = "return"
     /\ pending' = NoExc /\ Len(frames') = Len(frames) - 1) =>
        Get(vertices', Top.vid).dependency_keys =
            DirectReads(Top.vid.k[2], Top.vals)

\* C25: while V is on top of the evaluation stack, a nested read of a vertex
\* W other than V adds W's key to V.dependency_keys and to no vertex lower
\* on the stack, and after a successful evaluation V.dependency_keys is
\* exactly the set of keys of the cells V's expression read directly during
\* that evaluation, neither the keys read by nested evaluations nor keys of
\* an earlier evaluation.  It holds of evaluations in one graph; it is
\* violated when a wrapper built in one graph is driven in another: the
\* vertex is pushed on the stack of the graph the wrapper was built in and
\* the read is registered with the stack of the current graph.
C25_DependencyRegistration ==
    [][Registers /\ ExactAfterEvaluation]_vars

====
